---- MODULE Spec2Model ----
(***************************************************************************)
(* Interview management module of the HRMS repository: the in-memory store *)
(* of db.js (candidates, users, interviews, backgroundVerifications and    *)
(* the _id counters), its snapshot file, and the operations of the         *)
(* interview module (scheduleInterview, updateInterview,                   *)
(* recordInterviewFeedback, initiateBackgroundVerification,                *)
(* updateBackgroundVerification) as they are written in the source.        *)
(*                                                                         *)
(* JavaScript values.  An optional value (a property of a request body     *)
(* that may be omitted, a field that may hold null) is a sequence of       *)
(* length at most one: Absent is undefined/null, Some(v) is the value v.   *)
(* Truthiness is computed as JavaScript computes it: 0 and '' are falsy.   *)
(***************************************************************************)
EXTENDS Integers, Sequences, FiniteSets, TLC

VARIABLES
    db,      \* db.data of db.js: the in-memory store of this process
    file,    \* the contents of db.json, as last written by db.write()
    last,    \* the last call that returned normally: the operation and the id of its entity
    peer,    \* db.data of a second process that loaded the same db.json
    task,    \* the handler on the call stack of this process, and where it is
    pending  \* the notification functions of this process suspended at their await

vars == <<db, file, last, peer, task, pending>>

----------------------------------------------------------------------------
(* Bounds of the model *)

\* interviews ever scheduled
MaxInterviews == 2
\* background verifications ever initiated
MaxVerifications == 1
\* readings of the clock that end up stored as a timestamp
MaxTime == 3

----------------------------------------------------------------------------
(* JavaScript values *)

Absent == <<>>
Some(v) == <<v>>

\* !!x for a number-valued optional: undefined, null and 0 are falsy
TruthyNum(x) == x # Absent /\ x[1] # 0

\* !!x for a string-valued optional: undefined, null and '' are falsy
TruthyStr(x) == x # Absent /\ x[1] # ""

\* a || b
OrElseNum(a, b) == IF TruthyNum(a) THEN a ELSE b
OrElseStr(a, b) == IF TruthyStr(a) THEN a ELSE b

\* Array.prototype.findIndex: the first position whose element passes Test,
\* 0 when there is none (JavaScript's -1)
FindIndex(arr, Test(_)) ==
    LET hits == {i \in 1..Len(arr) : Test(arr[i])}
    IN  IF hits = {} THEN 0 ELSE CHOOSE i \in hits : \A j \in hits : i <= j

\* No error thrown
NoError == <<>>

----------------------------------------------------------------------------
(* The store *)

\* candidates 1 and 2 are the candidates of the store
CandidateIds == {1, 2}
\* users 2 and 3 are the interviewers of the store
UserIds == {2, 3}

CandidateStatuses ==
    {"applied", "shortlisted", "interview_scheduled", "interviewed", "selected",
     "rejected", "on_hold", "next_round", "background_verification", "verified",
     "verification_failed", "joined"}

\* The statuses candidates are in when the interview module first sees them:
\* set by the recruitment module (applied, shortlisted) or by onboarding (joined)
InitialStatuses == {"shortlisted"}

\* The latest timestamp stored anywhere in d (0 when there is none)
LatestTime(d) ==
    LET stamps == {d.interviews[i].scheduledAt : i \in 1..Len(d.interviews)}
              \cup {d.interviews[i].completedAt[1] :
                      i \in {j \in 1..Len(d.interviews) : d.interviews[j].completedAt # Absent}}
              \cup {d.backgroundVerifications[i].initiatedAt :
                      i \in 1..Len(d.backgroundVerifications)}
              \cup {d.backgroundVerifications[i].completedAt[1] :
                      i \in {j \in 1..Len(d.backgroundVerifications) :
                               d.backgroundVerifications[j].completedAt # Absent}}
    IN  IF stamps = {} THEN 0 ELSE CHOOSE t \in stamps : \A u \in stamps : u <= t

\* new Date().toISOString(): each reading of the clock is later than every
\* timestamp already stored
Now(d) == LatestTime(d) + 1

\* Mutant of write: the collections are written without the _id counters
writeMutant(d) == [d EXCEPT !._id = [interviews |-> 0, backgroundVerifications |-> 0]]

\* db.write(): the whole of db.data replaces the file
write(d) == d

\* Mutant of nextId: the incremented counter is returned but not stored
nextIdMutant(d, table) ==
    [id |-> d._id[table] + 1, db |-> d]

\* db.nextId(table): increments the table's counter and returns it
nextId(d, table) ==
    LET n == d._id[table] + 1
    IN  [id |-> n, db |-> [d EXCEPT !._id[table] = n]]

\* db.data.candidates.find(c => c.id === candidateId): an index, 0 if none
CandidateIndex(d, candidateId) ==
    FindIndex(d.candidates, LAMBDA c : Some(c.id) = candidateId)

\* getCandidateById throws 'Candidate not found' when there is none
CandidateNotFound == <<"Candidate not found">>

\* Mutant of updateCandidateStatus: the candidate is looked up with an id of
\* the wrong type, so getCandidateById throws
updateCandidateStatusMutant(d, f, candidateId, status) ==
    [err |-> CandidateNotFound, db |-> d, file |-> f]

\* Mutant of updateCandidateStatus: the status of the first candidate found
\* is assigned, whatever the id
updateCandidateStatusFirstMutant(d, f, candidateId, status) ==
    LET d2 == [d EXCEPT !.candidates[1].status = status]
    IN  [err |-> NoError, db |-> d2, file |-> write(d2)]

\* updateCandidateStatus(candidateId, status): getCandidateById, assignment, db.write()
updateCandidateStatus(d, f, candidateId, status) ==
    LET i == CandidateIndex(d, candidateId)
    IN  IF i = 0
        THEN [err |-> CandidateNotFound, db |-> d, file |-> f]
        ELSE LET d2 == [d EXCEPT !.candidates[i].status = status]
             IN  [err |-> NoError, db |-> d2, file |-> write(d2)]

----------------------------------------------------------------------------
(* scheduleInterview *)

RequiredMissing == <<"Candidate ID, date, and time are required">>
InterviewerNotFound(id) == <<"Interviewer with ID ", id, " not found">>
ScheduleFailed(msg) == <<"Failed to schedule interview: ", msg>>

\* if (!candidateId || !date || !time)
MissingRequired(data) ==
    ~TruthyNum(data.candidateId) \/ ~TruthyStr(data.date) \/ ~TruthyStr(data.time)

\* Mutant of FirstUnknownInterviewer: only the first panel member is looked up
FirstUnknownInterviewerMutant(d, panel) ==
    IF panel # <<>> /\ panel[1] \notin d.users THEN 1 ELSE 0

\* The first panel member that is no user, 0 when all are users
FirstUnknownInterviewer(d, panel) ==
    FindIndex(panel, LAMBDA interviewerId : interviewerId \notin d.users)

\* Mutant of NewInterview: the interview is created without a status
NewInterviewMutant(id, data, now) ==
    [id |-> id, candidateId |-> data.candidateId[1], date |-> data.date[1],
     time |-> data.time[1], panel |-> data.panel, round |-> 1, type |-> "technical",
     location |-> "virtual", status |-> "", feedback |-> Absent, rating |-> Absent,
     remarks |-> "", outcome |-> Absent, scheduledBy |-> Absent, scheduledAt |-> now,
     completedAt |-> Absent]

\* The interview scheduleInterview creates
NewInterview(id, data, now) ==
    [id |-> id,
     candidateId |-> data.candidateId[1],
     date |-> data.date[1],
     time |-> data.time[1],
     panel |-> data.panel,
     round |-> 1,
     type |-> "technical",
     location |-> "virtual",
     status |-> "scheduled",
     feedback |-> Absent,
     rating |-> Absent,
     remarks |-> "",
     outcome |-> Absent,
     scheduledBy |-> Absent,
     scheduledAt |-> now,
     completedAt |-> Absent]

\* The result of scheduleInterview(data) on store d and file f at time now:
\* the error thrown (NoError if none), the store and the file afterwards,
\* and the value returned
scheduleInterview(d, f, data, now) ==
    IF MissingRequired(data)
    THEN [err |-> ScheduleFailed(RequiredMissing), db |-> d, file |-> f, ret |-> Absent]
    ELSE IF CandidateIndex(d, data.candidateId) = 0
    THEN [err |-> ScheduleFailed(CandidateNotFound), db |-> d, file |-> f, ret |-> Absent]
    ELSE IF FirstUnknownInterviewer(d, data.panel) # 0
    THEN [err |-> ScheduleFailed(InterviewerNotFound(
                      data.panel[FirstUnknownInterviewer(d, data.panel)])),
          db |-> d, file |-> f, ret |-> Absent]
    ELSE LET n == nextId(d, "interviews")
             interview == NewInterview(n.id, data, now)
             d2 == [n.db EXCEPT !.interviews = Append(@, interview)]
             u == updateCandidateStatus(d2, f, data.candidateId, "interview_scheduled")
         IN  IF u.err # NoError
             THEN [err |-> ScheduleFailed(u.err), db |-> u.db, file |-> u.file, ret |-> Absent]
             ELSE [err |-> NoError, db |-> u.db, file |-> write(u.db), ret |-> Some(interview)]

----------------------------------------------------------------------------
(* getInterviewById, updateInterview *)

InterviewNotFound == <<"Interview not found">>
UpdateFailed(msg) == <<"Failed to update interview: ", msg>>

\* db.data.interviews.findIndex(i => i.id === interviewId): an index, 0 if none
InterviewIndex(d, interviewId) ==
    FindIndex(d.interviews, LAMBDA i : Some(i.id) = interviewId)

\* const allowedUpdates = ['date', 'time', 'panel', 'type', 'location', 'status']
allowedUpdates == {"date", "time", "panel", "type", "location", "status"}

\* for (const field of allowedUpdates)
\*   if (updates[field] !== undefined) updatedInterview[field] = updates[field]
ApplyUpdates(interview, updates) ==
    [field \in DOMAIN interview |->
        IF field \in allowedUpdates /\ updates[field] # Absent
        THEN updates[field][1]
        ELSE interview[field]]

\* Mutant of updateInterview: the interview is replaced in memory but
\* db.write() is not called
updateInterviewMutant(d, f, interviewId, updates) ==
    LET index == InterviewIndex(d, interviewId)
    IN  IF index = 0
        THEN [err |-> UpdateFailed(InterviewNotFound), db |-> d, file |-> f, ret |-> Absent]
        ELSE LET updatedInterview == ApplyUpdates(d.interviews[index], updates)
                 d2 == [d EXCEPT !.interviews[index] = updatedInterview]
             IN  [err |-> NoError, db |-> d2, file |-> f, ret |-> Some(updatedInterview)]

updateInterview(d, f, interviewId, updates) ==
    LET index == InterviewIndex(d, interviewId)
    IN  IF index = 0
        THEN [err |-> UpdateFailed(InterviewNotFound), db |-> d, file |-> f, ret |-> Absent]
        ELSE LET updatedInterview == ApplyUpdates(d.interviews[index], updates)
                 d2 == [d EXCEPT !.interviews[index] = updatedInterview]
             IN  [err |-> NoError, db |-> d2, file |-> write(d2),
                  ret |-> Some(updatedInterview)]

----------------------------------------------------------------------------
(* recordInterviewFeedback *)

NotScheduled == <<"Can only record feedback for scheduled interviews">>
RatingOutOfRange == <<"Rating must be between 1 and 5">>
InvalidOutcome == <<"Invalid outcome. Must be: selected, rejected, hold, or next_round">>
FeedbackFailed(msg) == <<"Failed to record feedback: ", msg>>

validOutcomes == {"selected", "rejected", "hold", "next_round"}

\* Mutant of IsScheduled: only a completed interview is refused
IsScheduledMutant(interview) == interview.status # "completed"

\* interview.status !== 'scheduled' is what refuses the call
IsScheduled(interview) == interview.status = "scheduled"

\* if (rating && (rating < 1 || rating > 5))
RatingRejected(rating) == TruthyNum(rating) /\ (rating[1] < 1 \/ rating[1] > 5)

\* if (outcome && !validOutcomes.includes(outcome))
OutcomeRejected(outcome) == TruthyStr(outcome) /\ outcome[1] \notin validOutcomes

\* Mutant of StatusForOutcome: the outcome itself becomes the status
StatusForOutcomeMutant(outcome) == outcome

\* outcome === 'selected' ? 'selected' : outcome === 'rejected' ? 'rejected' :
\* outcome === 'next_round' ? 'interview_scheduled' : 'on_hold'
StatusForOutcome(outcome) ==
    IF outcome = "selected" THEN "selected"
    ELSE IF outcome = "rejected" THEN "rejected"
    ELSE IF outcome = "next_round" THEN "interview_scheduled"
    ELSE "on_hold"

\* Mutant of CompletedInterview: completedAt is set only with an outcome
CompletedInterviewMutant(interview, feedback, now) ==
    [interview EXCEPT
        !.rating = OrElseNum(feedback.rating, @),
        !.remarks = OrElseStr(feedback.remarks, Some(@))[1],
        !.outcome = feedback.outcome,
        !.status = "completed",
        !.completedAt = IF TruthyStr(feedback.outcome) THEN Some(now) ELSE @]

\* { ...interview, rating: rating || interview.rating,
\*   remarks: remarks || interview.remarks, outcome, status: 'completed',
\*   completedAt: new Date().toISOString() }
CompletedInterview(interview, feedback, now) ==
    [interview EXCEPT
        !.rating = OrElseNum(feedback.rating, @),
        !.remarks = OrElseStr(feedback.remarks, Some(@))[1],
        !.outcome = feedback.outcome,
        !.status = "completed",
        !.completedAt = Some(now)]

recordInterviewFeedback(d, f, interviewId, feedback, now) ==
    LET index == InterviewIndex(d, interviewId)
    IN  IF index = 0
        THEN [err |-> FeedbackFailed(InterviewNotFound), db |-> d, file |-> f, ret |-> Absent]
        ELSE IF ~IsScheduled(d.interviews[index])
        THEN [err |-> FeedbackFailed(NotScheduled), db |-> d, file |-> f, ret |-> Absent]
        ELSE IF RatingRejected(feedback.rating)
        THEN [err |-> FeedbackFailed(RatingOutOfRange), db |-> d, file |-> f, ret |-> Absent]
        ELSE IF OutcomeRejected(feedback.outcome)
        THEN [err |-> FeedbackFailed(InvalidOutcome), db |-> d, file |-> f, ret |-> Absent]
        ELSE LET interview == d.interviews[index]
                 updatedInterview == CompletedInterview(interview, feedback, now)
                 d2 == [d EXCEPT !.interviews[index] = updatedInterview]
                 u == IF TruthyStr(feedback.outcome)
                      THEN updateCandidateStatus(d2, f, Some(interview.candidateId),
                                                 StatusForOutcome(feedback.outcome[1]))
                      ELSE [err |-> NoError, db |-> d2, file |-> f]
             IN  IF u.err # NoError
                 THEN [err |-> FeedbackFailed(u.err), db |-> u.db, file |-> u.file,
                       ret |-> Absent]
                 ELSE [err |-> NoError, db |-> u.db, file |-> write(u.db),
                       ret |-> Some(updatedInterview)]

----------------------------------------------------------------------------
(* initiateBackgroundVerification, updateBackgroundVerification *)

InitiateFailed(msg) == <<"Failed to initiate verification: ", msg>>
VerificationNotFound == <<"Background verification not found">>
InvalidStatus == <<"Invalid status">>
UpdateVerificationFailed(msg) == <<"Failed to update verification: ", msg>>

NewVerification(id, candidateId, data, now) ==
    [id |-> id,
     candidateId |-> candidateId[1],
     type |-> OrElseStr(data.type, Some("standard"))[1],
     agency |-> OrElseStr(data.agency, Absent),
     status |-> "initiated",
     documents |-> <<>>,
     remarks |-> "",
     initiatedBy |-> Absent,
     initiatedAt |-> now,
     completedAt |-> Absent,
     verifiedBy |-> Absent]

initiateBackgroundVerification(d, f, candidateId, data, now) ==
    IF CandidateIndex(d, candidateId) = 0
    THEN [err |-> InitiateFailed(CandidateNotFound), db |-> d, file |-> f, ret |-> Absent]
    ELSE LET n == nextId(d, "backgroundVerifications")
             verification == NewVerification(n.id, candidateId, data, now)
             d2 == [n.db EXCEPT !.backgroundVerifications = Append(@, verification)]
             u == updateCandidateStatus(d2, f, candidateId, "background_verification")
         IN  IF u.err # NoError
             THEN [err |-> InitiateFailed(u.err), db |-> u.db, file |-> u.file, ret |-> Absent]
             ELSE [err |-> NoError, db |-> u.db, file |-> write(u.db),
                   ret |-> Some(verification)]

validStatuses == {"initiated", "in_progress", "completed_passed", "completed_failed"}

\* db.data.backgroundVerifications.findIndex(v => v.id === verificationId)
VerificationIndex(d, verificationId) ==
    FindIndex(d.backgroundVerifications, LAMBDA v : Some(v.id) = verificationId)

\* if (status && !validStatuses.includes(status))
StatusRejected(status) == TruthyStr(status) /\ status[1] \notin validStatuses

\* status === 'completed_passed' || status === 'completed_failed'
IsTerminal(status) == status \in {Some("completed_passed"), Some("completed_failed")}

\* Mutant of StatusForVerification: the two results are exchanged
StatusForVerificationMutant(status) ==
    IF status = Some("completed_passed") THEN "verification_failed" ELSE "verified"

\* Mutant of StatusForVerification: the verification's status is written as
\* the candidate's status
StatusForVerificationRawMutant(status) == status[1]

\* status === 'completed_passed' ? 'verified' : 'verification_failed'
StatusForVerification(status) ==
    IF status = Some("completed_passed") THEN "verified" ELSE "verification_failed"

\* { ...verification, status: status || verification.status,
\*   remarks: remarks || verification.remarks,
\*   verifiedBy: verifiedBy || verification.verifiedBy },
\* with completedAt = new Date().toISOString() for a terminal status
UpdatedVerification(verification, updates, now) ==
    [verification EXCEPT
        !.status = OrElseStr(updates.status, Some(@))[1],
        !.remarks = OrElseStr(updates.remarks, Some(@))[1],
        !.verifiedBy = OrElseNum(updates.verifiedBy, @),
        !.completedAt = IF IsTerminal(updates.status) THEN Some(now) ELSE @]

updateBackgroundVerification(d, f, verificationId, updates, now) ==
    LET index == VerificationIndex(d, verificationId)
    IN  IF index = 0
        THEN [err |-> UpdateVerificationFailed(VerificationNotFound), db |-> d, file |-> f,
              ret |-> Absent]
        ELSE IF StatusRejected(updates.status)
        THEN [err |-> UpdateVerificationFailed(InvalidStatus), db |-> d, file |-> f,
              ret |-> Absent]
        ELSE LET verification == d.backgroundVerifications[index]
                 updatedVerification == UpdatedVerification(verification, updates, now)
                 u == IF IsTerminal(updates.status)
                      THEN updateCandidateStatus(d, f, Some(verification.candidateId),
                                                 StatusForVerification(updates.status))
                      ELSE [err |-> NoError, db |-> d, file |-> f]
             IN  IF u.err # NoError
                 THEN [err |-> UpdateVerificationFailed(u.err), db |-> u.db,
                       file |-> u.file, ret |-> Absent]
                 ELSE LET d2 == [u.db EXCEPT
                                    !.backgroundVerifications[index] = updatedVerification]
                      IN  [err |-> NoError, db |-> d2, file |-> write(d2),
                           ret |-> Some(updatedVerification)]

----------------------------------------------------------------------------
(* getInterviewDashboard *)

\* interviews.filter(i => i.rating).reduce((sum, i) => sum + i.rating, 0),
\* over the first n interviews
RECURSIVE SumOfRatings(_, _)
SumOfRatings(interviews, n) ==
    IF n = 0 THEN 0
    ELSE SumOfRatings(interviews, n - 1)
         + (IF TruthyNum(interviews[n].rating) THEN interviews[n].rating[1] ELSE 0)

\* Mutant of RoundedTenths: Math.floor in place of Math.round
RoundedTenthsMutant(sum, count) ==
    IF count = 0 THEN 0 ELSE (10 * sum) \div count

\* Math.round(avgRating * 10), where avgRating is sum / count || 0: the
\* average in tenths, halves rounded up; 0 / 0 is NaN, and NaN || 0 is 0
RoundedTenths(sum, count) ==
    IF count = 0 THEN 0 ELSE (20 * sum + count) \div (2 * count)

\* getInterviewDashboard(): the counts, the average rating and the outcome
\* counts.  averageRating, a number with one decimal, is held in tenths
\* (4.7 is 47).  upcomingInterviews, which compares the interviews' dates
\* with the wall clock, is left out.
getInterviewDashboard(d) ==
    LET interviews == d.interviews
        all == 1..Len(interviews)
        rated == {i \in all : TruthyNum(interviews[i].rating)}
        withOutcome == {i \in all : TruthyStr(interviews[i].outcome)}
    IN  [totalInterviews |-> Len(interviews),
         scheduledInterviews |-> Cardinality({i \in all : interviews[i].status = "scheduled"}),
         completedInterviews |-> Cardinality({i \in all : interviews[i].status = "completed"}),
         averageRating |-> RoundedTenths(SumOfRatings(interviews, Len(interviews)),
                                         Cardinality(rated)),
         outcomeStats |-> [o \in {interviews[i].outcome[1] : i \in withOutcome} |->
                              Cardinality({i \in withOutcome : interviews[i].outcome[1] = o})]]

----------------------------------------------------------------------------
(* Notifications *)

\* What emailService.sendInterviewScheduled / sendInterviewCompleted may do:
\* its promise resolves, its promise rejects, or the call itself throws
SenderOutcomes == {"resolves", "rejects", "throws"}

EmailFailed == <<"email service failed">>

\* What the body of a notification function runs into: getInterviewById or
\* getCandidateById throwing, or the sender failing (NoError if nothing)
DispatchError(d, interviewId, sender) ==
    LET index == InterviewIndex(d, interviewId)
    IN  IF index = 0 THEN InterviewNotFound
        ELSE IF CandidateIndex(d, Some(d.interviews[index].candidateId)) = 0
        THEN CandidateNotFound
        ELSE IF sender # "resolves" THEN EmailFailed
        ELSE NoError

\* Mutant of sendInterviewScheduledNotification: no try/catch around the
\* body, and the caller waits for the result
sendInterviewScheduledNotificationMutant(d, interviewId, sender) ==
    [err |-> DispatchError(d, interviewId, sender), db |-> d, logged |-> NoError]

\* sendInterviewScheduledNotification(interviewId): the whole body is inside
\* try/catch, the catch logs the error; err is what reaches the caller
sendInterviewScheduledNotification(d, interviewId, sender) ==
    [err |-> NoError, db |-> d, logged |-> DispatchError(d, interviewId, sender)]

\* sendInterviewCompletedNotification(interviewId): the same, for the
\* completion message
sendInterviewCompletedNotification(d, interviewId, sender) ==
    [err |-> NoError, db |-> d, logged |-> DispatchError(d, interviewId, sender)]

----------------------------------------------------------------------------
(* Route handlers *)

\* const interviewData = { ...req.body, scheduledBy: req.user.id }
interviewData(user, body) ==
    [candidateId |-> body.candidateId, date |-> body.date, time |-> body.time,
     panel |-> body.panel, scheduledBy |-> Some(user)]

\* const verificationData = { ...req.body, initiatedBy: req.user.id }
verificationData(user, body) ==
    [candidateId |-> body.candidateId, type |-> body.type, agency |-> body.agency,
     initiatedBy |-> Some(user)]

\* POST /api/interviews: scheduleInterview, then the notification, then the
\* response: 201 with the interview, or 400 with the message of what was thrown
PostInterview(d, f, user, body, now, sender) ==
    LET r == scheduleInterview(d, f, interviewData(user, body), now)
    IN  IF r.err # NoError
        THEN [status |-> 400, err |-> r.err, ret |-> Absent, db |-> r.db, file |-> r.file]
        ELSE LET n == sendInterviewScheduledNotification(r.db, Some(r.ret[1].id), sender)
             IN  IF n.err # NoError
                 THEN [status |-> 400, err |-> n.err, ret |-> Absent, db |-> n.db,
                       file |-> r.file]
                 ELSE [status |-> 201, err |-> NoError, ret |-> r.ret, db |-> n.db,
                       file |-> r.file]

\* POST /api/interviews/:id/feedback: recordInterviewFeedback, then the
\* notification, then the response: 200 with the interview, or 400
PostInterviewFeedback(d, f, interviewId, body, now, sender) ==
    LET r == recordInterviewFeedback(d, f, interviewId, body, now)
    IN  IF r.err # NoError
        THEN [status |-> 400, err |-> r.err, ret |-> Absent, db |-> r.db, file |-> r.file]
        ELSE LET n == sendInterviewCompletedNotification(r.db, interviewId, sender)
             IN  IF n.err # NoError
                 THEN [status |-> 400, err |-> n.err, ret |-> Absent, db |-> n.db,
                       file |-> r.file]
                 ELSE [status |-> 200, err |-> NoError, ret |-> r.ret, db |-> n.db,
                       file |-> r.file]

\* POST /api/verifications: initiateBackgroundVerification with the body's
\* candidateId, then the response: 201 with the verification, or 400
PostVerification(d, f, user, body, now) ==
    LET r == initiateBackgroundVerification(d, f, verificationData(user, body).candidateId,
                                            verificationData(user, body), now)
    IN  IF r.err # NoError
        THEN [status |-> 400, err |-> r.err, ret |-> Absent, db |-> r.db, file |-> r.file]
        ELSE [status |-> 201, err |-> NoError, ret |-> r.ret, db |-> r.db, file |-> r.file]

----------------------------------------------------------------------------
(* Requests *)

\* candidateId of a request: omitted, 0, a candidate, or no candidate's id
CandidateIdInputs == {Absent, Some(0), Some(1), Some(2), Some(3)}

\* panel of a request: users 2 and 3, or user 2 and an id that is no user's
PanelInputs == {<<2, 3>>, <<2, 9>>}

DateInputs == {Absent, Some(""), Some("2024-01-15")}
TimeInputs == {Absent, Some("10:00")}

\* Every body of scheduleInterview
ScheduleInputs ==
    [candidateId : CandidateIdInputs, date : DateInputs, time : TimeInputs,
     panel : PanelInputs]

\* The bodies of scheduleInterview that are sent: for a candidate and for
\* an id that is no candidate's, with a panel of users; with a panel member
\* that is no user; and without a date
ScheduleRequests ==
    [candidateId : {Some(1), Some(2), Some(3)},
     date : {Some("2024-01-15")}, time : {Some("10:00")}, panel : {<<2, 3>>}]
    \cup {[candidateId |-> Some(1), date |-> Some("2024-01-15"), time |-> Some("10:00"),
           panel |-> <<2, 9>>],
          [candidateId |-> Some(1), date |-> Absent, time |-> Some("10:00"),
           panel |-> <<2, 3>>]}

\* interviewId of a request: an id ever allocated, or the next one
InterviewIdInputs == {Some(i) : i \in 1..(MaxInterviews + 1)}

NoUpdates ==
    [date |-> Absent, time |-> Absent, panel |-> Absent, type |-> Absent,
     location |-> Absent, status |-> Absent]

StatusUpdate(status) == [NoUpdates EXCEPT !.status = Some(status)]

\* Every body of updateInterview: nothing, a new date, every administrative
\* field at once (with a panel member that is no user), and a status
UpdateInputs ==
    {NoUpdates,
     [NoUpdates EXCEPT !.date = Some("2024-02-01")],
     [NoUpdates EXCEPT !.date = Some("2024-02-01"), !.time = Some("11:30"),
                       !.panel = Some(<<3, 9>>), !.type = Some("hr"),
                       !.location = Some("office")],
     StatusUpdate("scheduled"), StatusUpdate("completed"), StatusUpdate("cancelled")}

\* The bodies of updateInterview that are sent: a status, and a new panel
\* with a member that is no user
UpdateRequests ==
    {StatusUpdate("scheduled"), StatusUpdate("cancelled"),
     [NoUpdates EXCEPT !.panel = Some(<<3, 9>>)]}

RatingInputs == {Absent} \cup {Some(r) : r \in {0, 1, 5, 6}}
OutcomeInputs ==
    {Absent, Some(""), Some("selected"), Some("rejected"), Some("hold"),
     Some("next_round"), Some("maybe")}
RemarksInputs == {Absent, Some("Good technical skills")}

\* Every body of recordInterviewFeedback
FeedbackInputs == [rating : RatingInputs, remarks : RemarksInputs, outcome : OutcomeInputs]

\* The bodies of recordInterviewFeedback that are sent: nothing, a rating
\* and remarks with each outcome, a rating that is refused, and a rating of
\* 0 with an empty outcome
FeedbackRequests ==
    {[rating |-> Absent, remarks |-> Absent, outcome |-> Absent]}
    \cup [rating : {Some(5)}, remarks : {Some("Good technical skills")},
          outcome : OutcomeInputs \ {Absent, Some("")}]
    \cup {[rating |-> Some(6), remarks |-> Absent, outcome |-> Some("selected")],
          [rating |-> Some(0), remarks |-> Absent, outcome |-> Some("")]}

\* The candidateId of the initiateBackgroundVerification calls that are made
CandidateIdRequests == {Some(1), Some(2), Some(3)}

VerificationDataInputs == {[type |-> Absent, agency |-> Absent]}

\* Every body of POST /api/verifications
VerificationInputs ==
    [candidateId : CandidateIdInputs, type : {Absent}, agency : {Absent}]

\* The bodies of POST /api/verifications that are sent
VerificationRequests ==
    [candidateId : CandidateIdRequests, type : {Absent}, agency : {Absent}]

VerificationIdInputs == {Some(i) : i \in 1..(MaxVerifications + 1)}

VerificationStatusInputs ==
    {Absent, Some(""), Some("initiated"), Some("in_progress"), Some("completed_passed"),
     Some("completed_failed"), Some("done")}

\* Every body of updateBackgroundVerification
VerificationUpdateInputs ==
    [status : VerificationStatusInputs, remarks : {Absent, Some("Documents verified")},
     verifiedBy : {Absent, Some(2)}]

\* The bodies of updateBackgroundVerification that are sent: a status
VerificationUpdateRequests ==
    [status : VerificationStatusInputs \ {Absent, Some("")}, remarks : {Absent},
     verifiedBy : {Absent}]

----------------------------------------------------------------------------
(* The calls *)

\* What last holds after a call: the call and the id of the interview or
\* verification it created or changed, when it returned normally
Returned(op, id, r) ==
    IF r.err = NoError
    THEN [op |-> op, id |-> id]
    ELSE last

\* The store a call leaves is within the bounds of the model
Bounded(d) ==
    /\ Len(d.interviews) <= MaxInterviews
    /\ Len(d.backgroundVerifications) <= MaxVerifications
    /\ LatestTime(d) <= MaxTime

ScheduleInterview ==
    \E data \in ScheduleRequests, user \in UserIds, sender \in SenderOutcomes :
        LET r == PostInterview(db, file, user, data, Now(db), sender)
        IN  /\ r.err = NoError => Bounded(r.db)
            /\ db' = r.db
            /\ file' = r.file
            /\ UNCHANGED <<peer, task, pending>>
            /\ last' = Returned("scheduleInterview",
                                IF r.ret = Absent THEN Absent ELSE Some(r.ret[1].id), r)

UpdateInterview ==
    \E interviewId \in InterviewIdInputs, updates \in UpdateRequests :
        LET r == updateInterview(db, file, interviewId, updates)
        IN  /\ db' = r.db
            /\ file' = r.file
            /\ UNCHANGED <<peer, task, pending>>
            /\ last' = Returned("updateInterview", interviewId, r)

RecordInterviewFeedback ==
    \E interviewId \in InterviewIdInputs, feedback \in FeedbackRequests,
       sender \in SenderOutcomes :
        LET r == PostInterviewFeedback(db, file, interviewId, feedback, Now(db), sender)
        IN  /\ r.err = NoError => Bounded(r.db)
            /\ db' = r.db
            /\ file' = r.file
            /\ UNCHANGED <<peer, task, pending>>
            /\ last' = Returned("recordInterviewFeedback", interviewId, r)

InitiateBackgroundVerification ==
    \E body \in VerificationRequests, user \in UserIds :
        LET r == PostVerification(db, file, user, body, Now(db))
        IN  /\ r.err = NoError => Bounded(r.db)
            /\ db' = r.db
            /\ file' = r.file
            /\ UNCHANGED <<peer, task, pending>>
            /\ last' = Returned("initiateBackgroundVerification",
                                IF r.ret = Absent THEN Absent ELSE Some(r.ret[1].id), r)

UpdateBackgroundVerification ==
    \E verificationId \in VerificationIdInputs, updates \in VerificationUpdateRequests :
        LET r == updateBackgroundVerification(db, file, verificationId, updates, Now(db))
        IN  /\ r.err = NoError => Bounded(r.db)
            /\ db' = r.db
            /\ file' = r.file
            /\ UNCHANGED <<peer, task, pending>>
            /\ last' = Returned("updateBackgroundVerification", verificationId, r)

----------------------------------------------------------------------------

\* db.js after read(): the candidates and users the other modules created, no
\* interview and no verification yet, and a file that holds the same
InitDb ==
    {[candidates |-> cs, users |-> UserIds, interviews |-> <<>>,
      backgroundVerifications |-> <<>>,
      _id |-> [interviews |-> 0, backgroundVerifications |-> 0]] :
        cs \in {c \in [CandidateIds -> [id : CandidateIds, status : InitialStatuses]] :
                  \A i \in CandidateIds : c[i].id = i}}

\* No handler is running
Idle == [op |-> "idle"]

Init ==
    /\ db \in InitDb
    /\ file = db
    /\ last = [op |-> "none", id |-> Absent]
    /\ peer = db
    /\ task = Idle
    /\ pending = {}

Next ==
    \/ ScheduleInterview
    \/ UpdateInterview
    \/ RecordInterviewFeedback
    \/ InitiateBackgroundVerification
    \/ UpdateBackgroundVerification

Spec == Init /\ [][Next]_vars

----------------------------------------------------------------------------
(* The dashboard over stores with rated interviews *)

\* interviews of a store the dashboard is computed for
MaxRated == 3

\* The rating an interview holds: none, or what feedback stored
StoredRatings == {Absent} \cup {Some(r) : r \in 1..5}

\* The store after interviews were scheduled for candidate 1 and feedback
\* with rating ratings[k], and no outcome, was recorded for those k that
\* have a rating
RatedStore(ratings) ==
    LET data == [candidateId |-> Some(1), date |-> Some("2024-01-15"),
                 time |-> Some("10:00"), panel |-> <<2, 3>>]
        n == Len(ratings)
    IN  [candidates |-> [k \in CandidateIds |->
                            [id |-> k,
                             status |-> IF k = 1 /\ n > 0 THEN "interview_scheduled"
                                        ELSE "shortlisted"]],
         users |-> UserIds,
         interviews |-> [k \in 1..n |->
                            IF ratings[k] = Absent
                            THEN NewInterview(k, data, k)
                            ELSE CompletedInterview(
                                     NewInterview(k, data, k),
                                     [rating |-> ratings[k], remarks |-> Absent,
                                      outcome |-> Absent], n + k)],
         backgroundVerifications |-> <<>>,
         _id |-> [interviews |-> n, backgroundVerifications |-> 0]]

InitDashboard ==
    /\ db \in {RatedStore(ratings) :
                 ratings \in UNION {[1..n -> StoredRatings] : n \in 0..MaxRated}}
    /\ file = db
    /\ last = [op |-> "none", id |-> Absent]
    /\ peer = db
    /\ task = Idle
    /\ pending = {}

\* GET /api/dashboard/interviews
GetInterviewDashboard ==
    /\ last' = [op |-> "getInterviewDashboard", id |-> Absent,
                ret |-> getInterviewDashboard(db)]
    /\ UNCHANGED <<db, file, peer, task, pending>>

NextDashboard == GetInterviewDashboard

SpecDashboard == InitDashboard /\ [][NextDashboard]_vars

----------------------------------------------------------------------------
(* Two processes on one db.json *)

\* A call and its result
Call(op, r) == [op |-> op, err |-> r.err, db |-> r.db, file |-> r.file]

\* The calls a process whose store is d makes: interviews for candidates 1
\* and 2, and feedback for interview 1
WriterCalls(d, f) ==
    {Call("scheduleInterview",
          scheduleInterview(d, f, [candidateId |-> Some(c), date |-> Some("2024-01-15"),
                                   time |-> Some("10:00"), panel |-> <<2, 3>>], Now(d))) :
        c \in CandidateIds}
    \cup {Call("recordInterviewFeedback",
               recordInterviewFeedback(d, f, Some(1),
                                       [rating |-> Some(5), remarks |-> Absent,
                                        outcome |-> Some("selected")], Now(d)))}

\* Both processes ran read() on the same db.json
InitTwoWriters ==
    /\ db \in InitDb
    /\ peer = db
    /\ file = db
    /\ last = [op |-> "none", proc |-> 0]
    /\ task = Idle
    /\ pending = {}

\* A call of the first process that returns normally.  A process never reads
\* db.json after read(), and the writes of one call are writeFileSync of that
\* process's db.data, so what the file holds once the call has returned is
\* that process's store.
Writer1 ==
    \E r \in WriterCalls(db, file) :
        /\ r.err = NoError
        /\ Bounded(r.db)
        /\ db' = r.db
        /\ file' = r.file
        /\ last' = [op |-> r.op, proc |-> 1]
        /\ UNCHANGED <<peer, task, pending>>

\* A call of the second process that returns normally
Writer2 ==
    \E r \in WriterCalls(peer, file) :
        /\ r.err = NoError
        /\ Bounded(r.db)
        /\ peer' = r.db
        /\ file' = r.file
        /\ last' = [op |-> r.op, proc |-> 2]
        /\ UNCHANGED <<db, task, pending>>

NextTwoWriters == Writer1 \/ Writer2

SpecTwoWriters == InitTwoWriters /\ [][NextTwoWriters]_vars

----------------------------------------------------------------------------
(* The handlers statement by statement, on the event loop of one process *)

NotificationFns == {"sendInterviewScheduledNotification", "sendInterviewCompletedNotification"}

\* POST /api/interviews: the statements that read or write the store or the
\* file, in the order they run, each with the function it belongs to
ScheduleProgram ==
    <<[fn |-> "scheduleInterview", stmt |-> "validate"],
      [fn |-> "scheduleInterview", stmt |-> "nextId"],
      [fn |-> "scheduleInterview", stmt |-> "push"],
      [fn |-> "scheduleInterview", stmt |-> "candidate"],
      [fn |-> "scheduleInterview", stmt |-> "write"],
      [fn |-> "sendInterviewScheduledNotification", stmt |-> "lookup"],
      [fn |-> "sendInterviewScheduledNotification", stmt |-> "send"],
      [fn |-> "route", stmt |-> "respond"]>>

\* Mutant of FeedbackProgram: the route sends the notification before it
\* calls recordInterviewFeedback
FeedbackProgramMutant ==
    <<[fn |-> "sendInterviewCompletedNotification", stmt |-> "lookup"],
      [fn |-> "sendInterviewCompletedNotification", stmt |-> "send"],
      [fn |-> "recordInterviewFeedback", stmt |-> "validate"],
      [fn |-> "recordInterviewFeedback", stmt |-> "replace"],
      [fn |-> "recordInterviewFeedback", stmt |-> "candidate"],
      [fn |-> "recordInterviewFeedback", stmt |-> "write"],
      [fn |-> "route", stmt |-> "respond"]>>

\* POST /api/interviews/:id/feedback, likewise
FeedbackProgram ==
    <<[fn |-> "recordInterviewFeedback", stmt |-> "validate"],
      [fn |-> "recordInterviewFeedback", stmt |-> "replace"],
      [fn |-> "recordInterviewFeedback", stmt |-> "candidate"],
      [fn |-> "recordInterviewFeedback", stmt |-> "write"],
      [fn |-> "sendInterviewCompletedNotification", stmt |-> "lookup"],
      [fn |-> "sendInterviewCompletedNotification", stmt |-> "send"],
      [fn |-> "route", stmt |-> "respond"]>>

Program(op) == IF op = "scheduleInterview" THEN ScheduleProgram ELSE FeedbackProgram

\* Mutant of Awaits: recordInterviewFeedback is async and awaits after it has
\* replaced the interview
AwaitsMutant(fn, stmt) ==
    \/ fn \in NotificationFns /\ stmt = "send"
    \/ fn = "recordInterviewFeedback" /\ stmt = "replace"

\* The statements that are an await: `await emailService.send...` in the two
\* notification functions; scheduleInterview and recordInterviewFeedback are
\* not async and have none
Awaits(fn, stmt) == fn \in NotificationFns /\ stmt = "send"

\* The function and the statement a task is at
Fn(t) == Program(t.op)[t.pc].fn
Stmt(t) == Program(t.op)[t.pc].stmt

\* The first statement after position pc that belongs to the route or to a
\* function other than the one at pc: where the caller goes on
AfterCall(op, pc) ==
    CHOOSE k \in (pc + 1)..(Len(Program(op)) + 1) :
        /\ k <= Len(Program(op)) => Program(op)[k].fn # Program(op)[pc].fn
        /\ \A j \in (pc + 1)..(k - 1) : Program(op)[j].fn = Program(op)[pc].fn

\* The position of the route's response
RespondAt(op) == Len(Program(op))

\* The requests of the statement-level handlers
StepScheduleRequests ==
    [candidateId : {Some(1), Some(3)}, date : {Some("2024-01-15")}, time : {Some("10:00")},
     panel : {<<2, 3>>}]
StepFeedbackRequests ==
    {[rating |-> Some(5), remarks |-> Absent, outcome |-> Some("selected")],
     [rating |-> Absent, remarks |-> Absent, outcome |-> Absent],
     [rating |-> Some(6), remarks |-> Absent, outcome |-> Absent]}

InitSteps ==
    /\ db \in InitDb
    /\ file = db
    /\ last = [op |-> "none", id |-> Absent]
    /\ peer = db
    /\ task = Idle
    /\ pending = {}

\* The event loop takes a request for POST /api/interviews: only when no
\* handler is on the stack
StartSchedule ==
    /\ task = Idle
    /\ \E body \in StepScheduleRequests, user \in UserIds :
          LET r == scheduleInterview(db, file, interviewData(user, body), Now(db))
          IN  /\ r.err = NoError => Bounded(r.db)
              /\ task' = [op |-> "scheduleInterview", pc |-> 1,
                          body |-> interviewData(user, body), id |-> Absent,
                          interview |-> Absent, err |-> NoError, detached |-> FALSE]
    /\ UNCHANGED <<db, file, last, peer, pending>>

\* The event loop takes a request for POST /api/interviews/:id/feedback
StartFeedback ==
    /\ task = Idle
    /\ \E interviewId \in InterviewIdInputs, body \in StepFeedbackRequests :
          LET r == recordInterviewFeedback(db, file, interviewId, body, Now(db))
          IN  /\ r.err = NoError => Bounded(r.db)
              /\ task' = [op |-> "recordInterviewFeedback", pc |-> 1, body |-> body,
                          id |-> interviewId, interview |-> Absent, err |-> NoError,
                          detached |-> FALSE]
    /\ UNCHANGED <<db, file, last, peer, pending>>

\* What the statement the task is at does to the store and the file, the
\* task's locals after it, and whether it throws
Effect(t) ==
    LET same == [db |-> db, file |-> file, task |-> t]
        index == InterviewIndex(db, t.id)
    IN  IF Fn(t) = "scheduleInterview"
        THEN CASE Stmt(t) = "validate" ->
                    [same EXCEPT !.task.err =
                                    scheduleInterview(db, file, t.body, Now(db)).err]
               [] Stmt(t) = "nextId" ->
                    LET n == nextId(db, "interviews")
                    IN  [db |-> n.db, file |-> file,
                         task |-> [t EXCEPT !.interview =
                                              Some(NewInterview(n.id, t.body, Now(db))),
                                            !.id = Some(n.id)]]
               [] Stmt(t) = "push" ->
                    [same EXCEPT !.db.interviews = Append(@, t.interview[1])]
               [] Stmt(t) = "candidate" ->
                    LET u == updateCandidateStatus(db, file, t.body.candidateId,
                                                   "interview_scheduled")
                    IN  [db |-> u.db, file |-> u.file, task |-> [t EXCEPT !.err = u.err]]
               [] OTHER -> [same EXCEPT !.file = write(db)]
        ELSE IF Fn(t) = "recordInterviewFeedback"
        THEN CASE Stmt(t) = "validate" ->
                    [same EXCEPT !.task.err =
                                    recordInterviewFeedback(db, file, t.id, t.body,
                                                            Now(db)).err]
               [] Stmt(t) = "replace" ->
                    [same EXCEPT !.db.interviews[index] =
                                    CompletedInterview(@, t.body, Now(db))]
               [] Stmt(t) = "candidate" ->
                    IF TruthyStr(t.body.outcome)
                    THEN LET u == updateCandidateStatus(
                                      db, file, Some(db.interviews[index].candidateId),
                                      StatusForOutcome(t.body.outcome[1]))
                         IN  [db |-> u.db, file |-> u.file, task |-> [t EXCEPT !.err = u.err]]
                    ELSE same
               [] OTHER -> [same EXCEPT !.file = write(db)]
        ELSE IF Fn(t) \in NotificationFns /\ Stmt(t) = "lookup"
        THEN [same EXCEPT !.task.err = DispatchError(db, t.id, "resolves")]
        ELSE same

\* The handler on the stack runs its next statement.  A statement that throws
\* ends its function: in the route the catch responds 400, in a notification
\* function the catch logs and the route goes on.  At an await the rest of
\* the function is suspended and the caller goes on.  A function resumed from
\* an await has no caller left: when it ends the stack is empty.
Step ==
    /\ task # Idle
    /\ \E sender \in SenderOutcomes :
          LET e == Effect(task)
              t == e.task
              threw == t.err # NoError
                       \/ (Fn(task) \in NotificationFns /\ Stmt(task) = "send"
                           /\ sender = "throws")
              inNotification == Fn(task) \in NotificationFns
              next == IF threw /\ ~inNotification THEN RespondAt(task.op)
                      ELSE IF threw \/ Awaits(Fn(task), Stmt(task))
                      THEN AfterCall(task.op, task.pc)
                      ELSE task.pc + 1
              suspended == ~threw /\ Awaits(Fn(task), Stmt(task))
              ended == \/ Stmt(task) = "respond"
                       \/ task.detached /\ (threw \/ suspended
                                            \/ next > Len(Program(task.op))
                                            \/ Program(task.op)[next].fn # Fn(task))
          IN  /\ db' = e.db
              /\ file' = e.file
              /\ pending' = IF suspended
                            THEN pending \cup {[t EXCEPT !.pc = task.pc + 1,
                                                         !.detached = TRUE]}
                            ELSE pending
              /\ task' = IF ended THEN Idle
                         ELSE [t EXCEPT !.pc = next,
                                        !.err = IF inNotification THEN NoError ELSE @]
              /\ last' = IF Stmt(task) = "respond" /\ ~threw
                         THEN [op |-> task.op, id |-> task.id]
                         ELSE last
    /\ UNCHANGED peer

\* The event loop resumes a function suspended at an await: only when no
\* handler is on the stack.  The awaited promise has resolved or rejected; a
\* notification function then has nothing left but to return or to log.
Resume ==
    /\ task = Idle
    /\ \E c \in pending :
          /\ pending' = pending \ {c}
          /\ task' = IF c.pc <= Len(Program(c.op))
                        /\ Program(c.op)[c.pc].fn = Program(c.op)[c.pc - 1].fn
                     THEN c
                     ELSE Idle
    /\ UNCHANGED <<db, file, last, peer>>

NextSteps == StartSchedule \/ StartFeedback \/ Step \/ Resume

SpecSteps == InitSteps /\ [][NextSteps]_vars

----------------------------------------------------------------------------
(* Vocabulary of the properties *)

\* The error kinds of the specification.  The code throws plain Errors that
\* differ by their message only; each message belongs to one kind.
Kind(err) ==
    IF err = NoError THEN "none"
    ELSE IF Len(err[2]) = 3 THEN "NotFound"
    ELSE IF err[2] = NotScheduled THEN "InvalidStateTransition"
    ELSE IF err[2] \in {RequiredMissing, RatingOutOfRange, InvalidOutcome, InvalidStatus}
    THEN "ValidationError"
    ELSE "NotFound"

\* The candidate with this id in store d
CandidateOf(d, id) == d.candidates[CandidateIndex(d, Some(id))]

\* The interviews whose status is 'scheduled', by position
ScheduledInterviews == {i \in 1..Len(db.interviews) : db.interviews[i].status = "scheduled"}

\* recordInterviewFeedback(id of the interview at position i, feedback), now
Feedback(i, feedback) ==
    recordInterviewFeedback(db, file, Some(db.interviews[i].id), feedback, Now(db))

FeedbackWasRecorded(i) ==
    /\ last.op = "recordInterviewFeedback"
    /\ last.id = Some(db.interviews[i].id)
    /\ db.interviews[i].status = "completed"

----------------------------------------------------------------------------
(* Properties *)

\* C1: for every interview whose status is not 'scheduled' (a completed one
\* in particular) and every feedback, recordInterviewFeedback fails with
\* InvalidStateTransition and leaves the store and the file as they were.
C1_FeedbackNeedsScheduled ==
    \A i \in 1..Len(db.interviews) :
        db.interviews[i].status # "scheduled" =>
            \A feedback \in FeedbackInputs :
                LET r == Feedback(i, feedback)
                IN  /\ Kind(r.err) = "InvalidStateTransition"
                    /\ r.db = db
                    /\ r.file = file

\* Feedback has been recorded for an interview, and a second call on it is refused
C1_Witness ==
    \E i \in 1..Len(db.interviews) :
        /\ FeedbackWasRecorded(i)
        /\ Feedback(i, [rating |-> Some(5), remarks |-> Absent,
                        outcome |-> Some("selected")]).err = FeedbackFailed(NotScheduled)

\* C2: feedback is recorded at most once per interview: the call that
\* succeeds finds an interview for which none was recorded (completedAt is
\* written by recordInterviewFeedback alone), and moves it from 'scheduled'
\* to 'completed'.
C2_FeedbackAtMostOnce ==
    [][\A i \in 1..Len(db.interviews) :
          (/\ last'.op = "recordInterviewFeedback"
           /\ last'.id = Some(db.interviews[i].id)
           /\ db' # db)
          => /\ db.interviews[i].completedAt = Absent
             /\ db.interviews[i].status = "scheduled"
             /\ db'.interviews[i].status = "completed"]_vars

\* C3: on a scheduled interview every rating given outside 1..5, 0 and 6
\* included, fails with a ValidationError, and an accepted rating is in 1..5.
C3_RatingOutsideRangeFails ==
    \A i \in ScheduledInterviews, feedback \in FeedbackInputs :
        LET r == Feedback(i, feedback)
        IN  feedback.rating # Absent =>
                /\ feedback.rating[1] \notin 1..5 => Kind(r.err) = "ValidationError"
                /\ r.err = NoError => feedback.rating[1] \in 1..5

\* C4: every outcome given that is not one of selected, rejected, hold,
\* next_round fails with a ValidationError and changes nothing.
C4_OutcomeOutsideSetFails ==
    \A i \in ScheduledInterviews, feedback \in FeedbackInputs :
        LET r == Feedback(i, feedback)
        IN  (/\ feedback.outcome # Absent
             /\ feedback.outcome[1] \notin {"selected", "rejected", "hold", "next_round"})
            => /\ Kind(r.err) = "ValidationError"
               /\ r.db = db

\* The candidate status the specification gives for each outcome
OutcomeTable ==
    [selected |-> "selected", rejected |-> "rejected",
     next_round |-> "interview_scheduled", hold |-> "on_hold"]

\* C5: after a successful recordInterviewFeedback with a valid outcome, the
\* status of the interview's candidate is the one the table gives for the
\* outcome, whatever it was before and whatever rating and remarks were given.
C5_OutcomeDecidesCandidateStatus ==
    \A i \in 1..Len(db.interviews), feedback \in FeedbackInputs :
        LET r == Feedback(i, feedback)
        IN  (/\ r.err = NoError
             /\ feedback.outcome # Absent
             /\ feedback.outcome[1] \in DOMAIN OutcomeTable)
            => CandidateOf(r.db, db.interviews[i].candidateId).status
                   = OutcomeTable[feedback.outcome[1]]

\* Feedback with outcome hold has been recorded and the candidate is on hold
C5_Witness ==
    \E i \in 1..Len(db.interviews) :
        /\ FeedbackWasRecorded(i)
        /\ db.interviews[i].outcome = Some("hold")
        /\ CandidateOf(db, db.interviews[i].candidateId).status = "on_hold"

\* C6: scheduleInterview with a panel that has a member who is no user fails
\* and leaves the store (interviews, id counter, candidates) and the file as
\* they were; with candidateId, date and time given the error is NotFound.
C6_UnknownInterviewerCreatesNothing ==
    \A data \in ScheduleInputs :
        (\E k \in 1..Len(data.panel) : data.panel[k] \notin db.users) =>
            LET r == scheduleInterview(db, file, data, Now(db))
            IN  /\ r.err # NoError
                /\ r.db = db
                /\ r.file = file
                /\ ~MissingRequired(data) => Kind(r.err) = "NotFound"

\* A candidate has an interview, and scheduling another with a panel of user
\* 2 and the unknown id 9 is refused for the interviewer
C6_Witness ==
    /\ last.op = "scheduleInterview"
    /\ Len(db.interviews) = 1
    /\ scheduleInterview(db, file,
           [candidateId |-> Some(2), date |-> Some("2024-01-15"), time |-> Some("10:00"),
            panel |-> <<2, 9>>], Now(db)).err
         = ScheduleFailed(InterviewerNotFound(9))

\* updateBackgroundVerification(id of the verification at position i, updates), now
UpdateVerification(i, updates) ==
    updateBackgroundVerification(db, file, Some(db.backgroundVerifications[i].id),
                                 updates, Now(db))

\* C7: after updateBackgroundVerification succeeds with status
\* completed_passed, completedAt is non-null and the candidate is 'verified';
\* with completed_failed, completedAt is non-null and the candidate is
\* 'verification_failed'.
C7_TerminalVerificationSetsCandidate ==
    \A i \in 1..Len(db.backgroundVerifications), updates \in VerificationUpdateInputs :
        LET r == UpdateVerification(i, updates)
            v == r.db.backgroundVerifications[i]
        IN  (r.err = NoError
             /\ updates.status \in {Some("completed_passed"), Some("completed_failed")})
            => /\ v.status = updates.status[1]
               /\ v.completedAt # Absent
               /\ CandidateOf(r.db, v.candidateId).status
                    = IF updates.status = Some("completed_passed")
                      THEN "verified" ELSE "verification_failed"

\* A verification has been updated to completed_failed
C7_Witness ==
    \E i \in 1..Len(db.backgroundVerifications) :
        /\ last.op = "updateBackgroundVerification"
        /\ last.id = Some(db.backgroundVerifications[i].id)
        /\ db.backgroundVerifications[i].status = "completed_failed"
        /\ db.backgroundVerifications[i].completedAt # Absent
        /\ CandidateOf(db, db.backgroundVerifications[i].candidateId).status
             = "verification_failed"

\* C8: scheduleInterview for an existing candidate, with date and time
\* non-empty and a panel of users, succeeds: it returns a new interview with
\* status 'scheduled' that is in the store, and the candidate's status is
\* 'interview_scheduled'.
C8_ScheduleSucceeds ==
    \A data \in ScheduleInputs :
        (/\ data.candidateId # Absent
         /\ \E k \in 1..Len(db.candidates) : db.candidates[k].id = data.candidateId[1]
         /\ data.date \notin {Absent, Some("")}
         /\ data.time \notin {Absent, Some("")}
         /\ \A k \in 1..Len(data.panel) : data.panel[k] \in db.users)
        => LET r == scheduleInterview(db, file, data, Now(db))
           IN  /\ r.err = NoError
               /\ r.ret # Absent
               /\ r.ret[1].status = "scheduled"
               /\ r.ret[1].candidateId = data.candidateId[1]
               /\ \A k \in 1..Len(db.interviews) : db.interviews[k].id # r.ret[1].id
               /\ Len(r.db.interviews) = Len(db.interviews) + 1
               /\ r.db.interviews[Len(r.db.interviews)] = r.ret[1]
               /\ CandidateOf(r.db, data.candidateId[1]).status = "interview_scheduled"

\* An interview has just been scheduled for a candidate, after an earlier one
C8_Witness ==
    /\ last.op = "scheduleInterview"
    /\ Len(db.interviews) = 2
    /\ db.interviews[2].status = "scheduled"
    /\ last.id = Some(db.interviews[2].id)
    /\ CandidateOf(db, db.interviews[2].candidateId).status = "interview_scheduled"

\* C9: every successful recordInterviewFeedback, for any accepted rating and
\* any outcome, valid or omitted, sets the interview's status to 'completed'
\* and its completedAt to a timestamp.
C9_FeedbackCompletesInterview ==
    \A i \in ScheduledInterviews, feedback \in FeedbackInputs :
        LET r == Feedback(i, feedback)
        IN  r.err = NoError =>
                /\ r.db.interviews[i].status = "completed"
                /\ r.db.interviews[i].completedAt # Absent

\* Feedback without an outcome has been recorded and the interview is completed
C9_Witness ==
    \E i \in 1..Len(db.interviews) :
        /\ FeedbackWasRecorded(i)
        /\ db.interviews[i].outcome = Absent
        /\ db.interviews[i].completedAt # Absent

\* C10: once a candidate's status is 'rejected', 'verification_failed' or
\* 'joined', no operation changes it.
C10_TerminalStatusesStay ==
    [][\A k \in 1..Len(db.candidates) :
          db.candidates[k].status \in {"rejected", "verification_failed", "joined"}
          => db'.candidates[k].status = db.candidates[k].status]_vars

\* The edges of the candidate state machine
CandidateEdges ==
    {<<"applied", "shortlisted">>, <<"shortlisted", "interview_scheduled">>,
     <<"interview_scheduled", "interviewed">>, <<"interviewed", "selected">>,
     <<"interviewed", "rejected">>, <<"interviewed", "on_hold">>,
     <<"interviewed", "next_round">>, <<"next_round", "interview_scheduled">>,
     <<"selected", "background_verification">>,
     <<"background_verification", "verified">>,
     <<"background_verification", "verification_failed">>, <<"verified", "joined">>}

\* C11: every change of a candidate's status, by any operation, is an edge
\* of the candidate state machine.
C11_StatusChangesAreEdges ==
    [][\A k \in 1..Len(db.candidates) :
          db'.candidates[k].status # db.candidates[k].status
          => <<db.candidates[k].status, db'.candidates[k].status>> \in CandidateEdges]_vars

\* C12: a verification's status only moves forward: once completed_passed or
\* completed_failed it never changes, and from in_progress it never returns
\* to initiated.
C12_VerificationStatusForward ==
    [][\A i \in 1..Len(db.backgroundVerifications) :
          LET old == db.backgroundVerifications[i].status
              new == db'.backgroundVerifications[i].status
          IN  /\ old \in {"completed_passed", "completed_failed"} => new = old
              /\ old = "in_progress" => new # "initiated"]_vars

\* C13: after every step, each verification's completedAt is non-null
\* exactly when its status is completed_passed or completed_failed, and a
\* step writes completedAt only when it moves the status into one of the two.
C13_CompletedAtIffTerminal ==
    [][/\ \A i \in 1..Len(db'.backgroundVerifications) :
             db'.backgroundVerifications[i].completedAt # Absent
             <=> db'.backgroundVerifications[i].status
                   \in {"completed_passed", "completed_failed"}
       /\ \A i \in 1..Len(db.backgroundVerifications) :
             db'.backgroundVerifications[i].completedAt
               # db.backgroundVerifications[i].completedAt
             => /\ db.backgroundVerifications[i].status
                     \notin {"completed_passed", "completed_failed"}
                /\ db'.backgroundVerifications[i].status
                     \in {"completed_passed", "completed_failed"}]_vars

\* C14: every interview's status is 'scheduled' or 'completed'.
C14_InterviewStatusInEnum ==
    \A i \in 1..Len(db.interviews) : db.interviews[i].status \in {"scheduled", "completed"}

\* C15: a completed interview is immutable: once an interview is completed,
\* or feedback has been recorded for it, no operation changes any of its fields.
C15_CompletedInterviewImmutable ==
    [][\A i \in 1..Len(db.interviews) :
          (db.interviews[i].status = "completed" \/ db.interviews[i].completedAt # Absent)
          => db'.interviews[i] = db.interviews[i]]_vars

\* C16: every call of scheduleInterview, updateInterview,
\* recordInterviewFeedback, initiateBackgroundVerification or
\* updateBackgroundVerification that fails leaves the candidates, interviews,
\* verifications and id counters (the store) and the file as they were.
C16_FailureChangesNothing ==
    /\ \A data \in ScheduleInputs :
          LET r == scheduleInterview(db, file, data, Now(db))
          IN  r.err # NoError => r.db = db /\ r.file = file
    /\ \A interviewId \in InterviewIdInputs :
          /\ \A updates \in UpdateInputs :
                LET r == updateInterview(db, file, interviewId, updates)
                IN  r.err # NoError => r.db = db /\ r.file = file
          /\ \A feedback \in FeedbackInputs :
                LET r == recordInterviewFeedback(db, file, interviewId, feedback, Now(db))
                IN  r.err # NoError => r.db = db /\ r.file = file
    /\ \A candidateId \in CandidateIdInputs, data \in VerificationDataInputs :
          LET r == initiateBackgroundVerification(db, file, candidateId, data, Now(db))
          IN  r.err # NoError => r.db = db /\ r.file = file
    /\ \A verificationId \in VerificationIdInputs, updates \in VerificationUpdateInputs :
          LET r == updateBackgroundVerification(db, file, verificationId, updates, Now(db))
          IN  r.err # NoError => r.db = db /\ r.file = file

\* There are a scheduled interview and a verification, and calls with a
\* rating of 6, an unknown verification status, no date, an unknown candidate
\* and an unknown interview all fail
C16_Witness ==
    /\ ScheduledInterviews # {}
    /\ Len(db.backgroundVerifications) > 0
    /\ \E i \in ScheduledInterviews :
          Feedback(i, [rating |-> Some(6), remarks |-> Absent, outcome |-> Absent]).err
            = FeedbackFailed(RatingOutOfRange)
    /\ UpdateVerification(1, [status |-> Some("done"), remarks |-> Absent,
                              verifiedBy |-> Absent]).err
         = UpdateVerificationFailed(InvalidStatus)
    /\ scheduleInterview(db, file,
           [candidateId |-> Some(1), date |-> Absent, time |-> Some("10:00"),
            panel |-> <<2, 3>>], Now(db)).err = ScheduleFailed(RequiredMissing)
    /\ initiateBackgroundVerification(db, file, Some(3), [type |-> Absent, agency |-> Absent],
                                      Now(db)).err = InitiateFailed(CandidateNotFound)
    /\ updateInterview(db, file, Some(Len(db.interviews) + 1), NoUpdates).err
         = UpdateFailed(InterviewNotFound)

C18_StoredRatingAndOutcomeValid ==
    \A i \in 1..Len(db.interviews) :
        /\ db.interviews[i].rating \in {Absent} \cup {Some(r) : r \in 1..5}
        /\ db.interviews[i].outcome
             \in {Absent, Some("selected"), Some("rejected"), Some("hold"),
                  Some("next_round")}

\* C19: for every schedule or feedback request whose transition succeeds, the
\* store, the file and the response are those of the transition, whether the
\* notification sender succeeds or fails; and a notification whose interview
\* lookup throws reports nothing to its caller and leaves the store alone.
C19_NotificationNeverAffectsTransition ==
    /\ \A data \in ScheduleInputs :
          LET t == scheduleInterview(db, file, data, Now(db))
          IN  t.err = NoError =>
                  \A sender \in SenderOutcomes :
                      PostInterview(db, file, 2, data, Now(db), sender)
                        = [status |-> 201, err |-> NoError, ret |-> t.ret,
                           db |-> t.db, file |-> t.file]
    /\ \A i \in ScheduledInterviews, feedback \in FeedbackInputs :
          LET t == Feedback(i, feedback)
          IN  t.err = NoError =>
                  \A sender \in SenderOutcomes :
                      PostInterviewFeedback(db, file, Some(db.interviews[i].id), feedback,
                                            Now(db), sender)
                        = [status |-> 200, err |-> NoError, ret |-> t.ret,
                           db |-> t.db, file |-> t.file]
    /\ \A interviewId \in InterviewIdInputs, sender \in SenderOutcomes :
          /\ sendInterviewScheduledNotification(db, interviewId, sender).err = NoError
          /\ sendInterviewScheduledNotification(db, interviewId, sender).db = db
          /\ sendInterviewCompletedNotification(db, interviewId, sender).err = NoError
          /\ sendInterviewCompletedNotification(db, interviewId, sender).db = db

\* An interview has just been scheduled; its notification fails when the
\* sender rejects, and the notification for an unknown interview fails in
\* the lookup
C19_Witness ==
    /\ last.op = "scheduleInterview"
    /\ last.id # Absent
    /\ sendInterviewScheduledNotification(db, last.id, "rejects").logged = EmailFailed
    /\ sendInterviewScheduledNotification(db, last.id, "resolves").logged = NoError
    /\ sendInterviewCompletedNotification(db, Some(Len(db.interviews) + 1), "resolves").logged
         = InterviewNotFound

\* C20: every id in every interview's panel is the id of a user, and every
\* interview's candidateId is the id of a candidate.
C20_PanelAndCandidateExist ==
    \A i \in 1..Len(db.interviews) :
        /\ \A k \in 1..Len(db.interviews[i].panel) : db.interviews[i].panel[k] \in db.users
        /\ \E k \in 1..Len(db.candidates) :
              db.candidates[k].id = db.interviews[i].candidateId

\* C21: a background verification is created, and a candidate's status set
\* to 'background_verification', only for a candidate whose status is
\* 'selected' or 'background_verification'.
C21_VerificationOnlyAfterSelected ==
    [][/\ Len(db'.backgroundVerifications) > Len(db.backgroundVerifications)
          => CandidateOf(db, db'.backgroundVerifications[
                                 Len(db'.backgroundVerifications)].candidateId).status
               \in {"selected", "background_verification"}
       /\ \A k \in 1..Len(db.candidates) :
             (/\ db'.candidates[k].status = "background_verification"
              /\ db.candidates[k].status # "background_verification")
             => db.candidates[k].status = "selected"]_vars

\* C22: no two interviews share an id and no two verifications share an id;
\* an id newly allocated is greater than every id already in its collection;
\* allocating an interview id leaves the verification counter alone, and
\* allocating a verification id leaves the interview counter alone.
C22_IdsUnique ==
    /\ \A i, j \in 1..Len(db.interviews) :
          i # j => db.interviews[i].id # db.interviews[j].id
    /\ \A i, j \in 1..Len(db.backgroundVerifications) :
          i # j => db.backgroundVerifications[i].id # db.backgroundVerifications[j].id
    /\ \A data \in ScheduleInputs :
          LET r == scheduleInterview(db, file, data, Now(db))
          IN  r.err = NoError =>
                  /\ \A i \in 1..Len(db.interviews) : db.interviews[i].id < r.ret[1].id
                  /\ r.db._id.backgroundVerifications = db._id.backgroundVerifications
    /\ \A candidateId \in CandidateIdInputs, data \in VerificationDataInputs :
          LET r == initiateBackgroundVerification(db, file, candidateId, data, Now(db))
          IN  r.err = NoError =>
                  /\ \A i \in 1..Len(db.backgroundVerifications) :
                        db.backgroundVerifications[i].id < r.ret[1].id
                  /\ r.db._id.interviews = db._id.interviews

\* Two interviews and a verification have been created, with ids 1, 2 and 1
C22_Witness ==
    /\ Len(db.interviews) = 2
    /\ Len(db.backgroundVerifications) = 1
    /\ db.interviews[1].id = 1
    /\ db.interviews[2].id = 2
    /\ db.backgroundVerifications[1].id = 1
    /\ db._id = [interviews |-> 2, backgroundVerifications |-> 1]

\* C24: omitted fields keep their values: updateBackgroundVerification with
\* no status, remarks or verifiedBy leaves the store as it was, and a
\* recordInterviewFeedback that omits rating, remarks or outcome leaves the
\* interview's stored rating, remarks or outcome as it was.
C24_OmittedFieldsRetained ==
    /\ \A i \in 1..Len(db.backgroundVerifications) :
          LET r == UpdateVerification(i, [status |-> Absent, remarks |-> Absent,
                                          verifiedBy |-> Absent])
          IN  r.err = NoError /\ r.db = db
    /\ \A i \in ScheduledInterviews, feedback \in FeedbackInputs :
          LET r == Feedback(i, feedback)
          IN  r.err = NoError =>
                  /\ feedback.rating = Absent
                       => r.db.interviews[i].rating = db.interviews[i].rating
                  /\ feedback.remarks = Absent
                       => r.db.interviews[i].remarks = db.interviews[i].remarks
                  /\ feedback.outcome = Absent
                       => r.db.interviews[i].outcome = db.interviews[i].outcome

C29_CreatorFieldsSet ==
    \A user \in UserIds :
        /\ \A body \in ScheduleInputs, sender \in SenderOutcomes :
              LET r == PostInterview(db, file, user, body, Now(db), sender)
              IN  r.status = 201 =>
                      r.db.interviews[Len(r.db.interviews)].scheduledBy = Some(user)
        /\ \A body \in VerificationInputs :
              LET r == PostVerification(db, file, user, body, Now(db))
              IN  r.status = 201 =>
                      r.db.backgroundVerifications[
                          Len(r.db.backgroundVerifications)].initiatedBy = Some(user)

\* C30 as claimed: a candidate whose status is 'interview_scheduled' has an
\* interview with status 'scheduled'.
C30_ScheduledCandidateHasScheduledInterview ==
    \A k \in 1..Len(db.candidates) :
        db.candidates[k].status = "interview_scheduled" =>
            \E i \in 1..Len(db.interviews) :
                /\ db.interviews[i].candidateId = db.candidates[k].id
                /\ db.interviews[i].status = "scheduled"

\* C30 as amended: a candidate whose status is 'interview_scheduled' has an
\* interview in the store, whatever the interview's status.
C30_ScheduledCandidateHasInterview ==
    \A k \in 1..Len(db.candidates) :
        db.candidates[k].status = "interview_scheduled" =>
            \E i \in 1..Len(db.interviews) :
                db.interviews[i].candidateId = db.candidates[k].id

\* Feedback with outcome next_round has been recorded: the candidate is
\* 'interview_scheduled' and every interview of the candidate is completed
C30_Witness ==
    \E k \in 1..Len(db.candidates) :
        /\ db.candidates[k].status = "interview_scheduled"
        /\ \E i \in 1..Len(db.interviews) :
              /\ db.interviews[i].candidateId = db.candidates[k].id
              /\ db.interviews[i].outcome = Some("next_round")
        /\ \A i \in 1..Len(db.interviews) :
              db.interviews[i].candidateId = db.candidates[k].id
              => db.interviews[i].status = "completed"

\* The interviews of the store that hold rating v
RatedWith(v) == {i \in 1..Len(db.interviews) : db.interviews[i].rating = Some(v)}

\* The number of rated interviews, and the sum of their ratings
RatedCount ==
    Cardinality(RatedWith(1)) + Cardinality(RatedWith(2)) + Cardinality(RatedWith(3))
    + Cardinality(RatedWith(4)) + Cardinality(RatedWith(5))
RatedSum ==
    Cardinality(RatedWith(1)) + 2 * Cardinality(RatedWith(2))
    + 3 * Cardinality(RatedWith(3)) + 4 * Cardinality(RatedWith(4))
    + 5 * Cardinality(RatedWith(5))

\* C23 as claimed: averageRating is the arithmetic mean of the ratings of the
\* rated interviews, and 0 when no interview has a rating.  (averageRating is
\* in tenths: it is the mean when averageRating * count = 10 * sum.)
C23_AverageIsMean ==
    last.op = "getInterviewDashboard" =>
        IF RatedCount = 0
        THEN last.ret.averageRating = 0
        ELSE last.ret.averageRating * RatedCount = 10 * RatedSum

\* C23 as amended: averageRating is the arithmetic mean of the ratings of the
\* rated interviews rounded to one decimal, halves up, and 0 when no
\* interview has a rating.
C23_AverageIsRoundedMean ==
    last.op = "getInterviewDashboard" =>
        IF RatedCount = 0
        THEN last.ret.averageRating = 0
        ELSE /\ 2 * RatedCount * last.ret.averageRating <= 20 * RatedSum + RatedCount
             /\ 20 * RatedSum + RatedCount < 2 * RatedCount * (last.ret.averageRating + 1)

\* The dashboard of three interviews rated 5, 5 and 4 has been computed: the
\* mean is 14/3 and averageRating is 4.7
C23_Witness ==
    /\ last.op = "getInterviewDashboard"
    /\ Len(db.interviews) = 3
    /\ db.interviews[1].rating = Some(5)
    /\ db.interviews[2].rating = Some(5)
    /\ db.interviews[3].rating = Some(4)
    /\ last.ret.averageRating = 47

\* C27: with two processes that loaded the same db.json the last writer
\* wins: after every call the file is the store of the process that made
\* it, so whatever the other process did since it started is not in the file.
C27_LastWriterWins ==
    /\ last.proc = 1 => file = db
    /\ last.proc = 2 => file = peer

\* Each process has scheduled one interview, the first for candidate 1 and
\* then the second for candidate 2, both with id 1; the file holds the second
\* process's interview only and candidate 1 still 'shortlisted'
C27_Witness ==
    /\ last = [op |-> "scheduleInterview", proc |-> 2]
    /\ Len(db.interviews) = 1
    /\ Len(peer.interviews) = 1
    /\ db.interviews[1].candidateId = 1
    /\ peer.interviews[1].candidateId = 2
    /\ db.interviews[1].id = peer.interviews[1].id
    /\ CandidateOf(db, 1).status = "interview_scheduled"
    /\ Len(file.interviews) = 1
    /\ file.interviews[1].candidateId = 2
    /\ CandidateOf(file, 1).status = "shortlisted"


\* C25: whenever no handler is on the stack, which is when the event loop can
\* start another request or resume a notification callback, every transition
\* that ran is applied whole: the store is persisted, nothing suspended is
\* part of a transition function, and the interview of the last transition
\* and its candidate's status have both been updated.
C25_TransitionsAtomic ==
    task = Idle =>
        /\ file = db
        /\ \A c \in pending : Program(c.op)[c.pc - 1].fn \in NotificationFns
        /\ last.op = "scheduleInterview" =>
              /\ InterviewIndex(db, last.id) # 0
              /\ CandidateOf(db, db.interviews[InterviewIndex(db, last.id)].candidateId).status
                    # "shortlisted"
        /\ last.op = "recordInterviewFeedback" =>
              LET i == db.interviews[InterviewIndex(db, last.id)]
              IN  /\ i.status = "completed"
                  /\ TruthyStr(i.outcome) =>
                        CandidateOf(db, i.candidateId).status = StatusForOutcome(i.outcome[1])

\* Two notification callbacks are pending after a feedback transition has
\* responded, and the event loop is free to start a request or resume either
C25_Witness ==
    /\ task = Idle
    /\ Cardinality(pending) >= 2
    /\ last.op = "recordInterviewFeedback"
    /\ CandidateOf(db, 1).status = "selected"

\* The step brings control to the first statement of a notification function:
\* the handler calls it next
Dispatches ==
    /\ task' # Idle
    /\ Fn(task') \in NotificationFns
    /\ Stmt(task') = "lookup"
    /\ task = Idle \/ Fn(task) \notin NotificationFns

\* C28: when a handler calls its notification function, its transition has
\* returned without an error and is persisted (the file equals the store and
\* holds the interview as the transition left it); and a handler whose
\* transition throws goes to its response, leaving the store and the file as
\* they were and dispatching nothing.
C28_NotifyAfterCommit ==
    [][/\ Dispatches =>
              /\ task'.err = NoError
              /\ file' = db'
              /\ task'.id # Absent
              /\ InterviewIndex(file', task'.id) # 0
              /\ file'.interviews[InterviewIndex(file', task'.id)].status =
                    (IF task'.op = "scheduleInterview" THEN "scheduled" ELSE "completed")
       /\ (task # Idle /\ Fn(task) \notin NotificationFns /\ Effect(task).task.err # NoError) =>
              /\ pending' = pending
              /\ task' = Idle \/ Stmt(task') = "respond"
              /\ db' = db
              /\ file' = file]_vars

\* The notification of a recorded and persisted feedback has been dispatched
\* and is pending, and a later request whose transition failed is at its
\* response with nothing more dispatched
C28_Witness ==
    /\ task # Idle
    /\ Stmt(task) = "respond"
    /\ task.err # NoError
    /\ file = db
    /\ \E c \in pending :
          /\ c.op = "recordInterviewFeedback"
          /\ file.interviews[InterviewIndex(file, c.id)].status = "completed"
    /\ Cardinality(pending) = 2

====
